---------------------------- MODULE Spec2Model ----------------------------
(***************************************************************************)
(* Model of manage_repos.py: the batch that provisions the repositories    *)
(* listed in repos.json (create, collaborators, pipeline file, secrets)    *)
(* and writes the list back, and of the padding loop of encrypt().         *)
(*                                                                         *)
(* Every remote call is one step whose HTTP result is chosen by the        *)
(* remote.  raise_for_status() turns a failed call into a                  *)
(* requests.exceptions.RequestException; main() catches that class and no  *)
(* other, so ValueError (pipeline type missing), FileNotFoundError (no     *)
(* template file), KeyError (a key answer without its fields) and the      *)
(* errors of encrypt() (a key that does not decode, a secret value that is *)
(* None) leave main().                                                     *)
(***************************************************************************)
EXTENDS Integers, Sequences, FiniteSets, TLC

(***************************************************************************)
(* Bounds of the model.                                                    *)
(***************************************************************************)
MaxRepos == 2
MaxBatch == 3
MaxUsers == 1
MaxRuns == 2
MaxReposRuns == 2
MaxKeyLen == 6

(***************************************************************************)
(* Inputs.  json.load does not look at the names: a list may hold the same *)
(* name more than once.  A user list is a prefix of UserRoster.            *)
(***************************************************************************)
RepoNames == {"svc-a", "svc-b"}
UserRoster == <<"alice", "bob", "carol", "dave">>
UserLists == {SubSeq(UserRoster, 1, n) : n \in 0..MaxUsers}
NoneType == "None"
PipelineTypes == {NoneType, "deploy", "test"}
Statuses == {"need-to-create", "created"}
KeyChars == {"A", "="}

\* Local template files: deploy.yml holds the text "name: CI" (its bytes);
\* there is no test.yml.
TemplateFiles == [deploy |-> <<110, 97, 109, 101, 58, 32, 67, 73>>]

\* os.getenv("GH_TOKEN") (line 11): the token, or None when the variable is
\* not set.
Tokens == {"gh-token", NoneType}
ExampleSecret == "example_secret_value"

(***************************************************************************)
(* base64.b64encode, on a sequence of bytes, giving a string.              *)
(***************************************************************************)
B64Chars ==
  <<"A", "B", "C", "D", "E", "F", "G", "H", "I", "J", "K", "L", "M",
    "N", "O", "P", "Q", "R", "S", "T", "U", "V", "W", "X", "Y", "Z",
    "a", "b", "c", "d", "e", "f", "g", "h", "i", "j", "k", "l", "m",
    "n", "o", "p", "q", "r", "s", "t", "u", "v", "w", "x", "y", "z",
    "0", "1", "2", "3", "4", "5", "6", "7", "8", "9", "+", "/">>

B64Digit(n) == B64Chars[n + 1]

RECURSIVE b64encode(_)
b64encode(bytes) ==
  IF Len(bytes) = 0 THEN ""
  ELSE IF Len(bytes) = 1 THEN
    B64Digit(bytes[1] \div 4) \o B64Digit((bytes[1] % 4) * 16) \o "=="
  ELSE IF Len(bytes) = 2 THEN
    B64Digit(bytes[1] \div 4)
      \o B64Digit((bytes[1] % 4) * 16 + bytes[2] \div 16)
      \o B64Digit((bytes[2] % 16) * 4) \o "="
  ELSE
    B64Digit(bytes[1] \div 4)
      \o B64Digit((bytes[1] % 4) * 16 + bytes[2] \div 16)
      \o B64Digit((bytes[2] % 16) * 4 + bytes[3] \div 64)
      \o B64Digit(bytes[3] % 64)
      \o b64encode(SubSeq(bytes, 4, Len(bytes)))

VARIABLES
  repos_data,      \* main(): the list in memory
  store,           \* repos.json on disk
  loaded,          \* the list as json.load returned it in this run
  pc,              \* where main() is: loop, collab, pipeline, pubkey, secret, done, crashed
  idx,             \* the position of the for loop over repos_data
  k,               \* the position of the inner loop (users, then secrets)
  calls,           \* the remote calls of this run, in order
  outcome,         \* per entry: how its processing ended in this run
  remote,          \* the names of the repositories that exist at the remote
  public_key_info, \* set_repo_secrets: what get_public_key returned
  run,             \* the number of the run
  stale,           \* entries created at the remote in a run that then failed
  GITHUB_TOKEN,    \* the module's global, read from the environment at import
  public_key,      \* encrypt(): the key string (a sequence of characters)
  key_in,          \* encrypt(): the key string it was called with
  padpc            \* encrypt(): idle, loop (padding), decode

vars == <<repos_data, store, loaded, pc, idx, k, calls, outcome, remote,
          public_key_info, run, stale, GITHUB_TOKEN, public_key, key_in, padpc>>

padvars == <<public_key, key_in, padpc>>
runvars == <<repos_data, store, loaded, pc, idx, k, calls, outcome, remote,
             public_key_info, run, stale, GITHUB_TOKEN>>

(***************************************************************************)
(* The lists repos.json can hold.                                          *)
(***************************************************************************)
Entries ==
  [repo_name : RepoNames, repo_users : UserLists,
   pipeline_type : PipelineTypes, status : Statuses]

ListsUpTo(max) == UNION {[1..n -> Entries] : n \in 0..max}

NamesOf(list) == {list[i].repo_name : i \in 1..Len(list)}

Pending(list) == [i \in 1..Len(list) |-> "pending"]

\* json.load of repos.json (line 108-109) and json.dump back (line 135-136):
\* the list of objects, field by field.
JsonLoad(file) == file
JsonDump(list) == list

(***************************************************************************)
(* The pieces of main() and of the functions it calls.                     *)
(***************************************************************************)
repo == repos_data[idx]

\* A loop that forgets the test of the status.
NeedsCreateAlways(r) == TRUE

\* line 112
NeedsCreate(r) == r.status = "need-to-create"

\* A call whose status is never looked at.
RaisesNever(ok) == FALSE

\* response.raise_for_status(): raises on a non-success status
RaisesForStatus(ok) == ~ok

\* A status written to every entry of the list instead of the current one.
SetCreatedAll(list, i) == [j \in 1..Len(list) |-> [list[j] EXCEPT !.status = "created"]]

\* line 130
SetCreated(list, i) == [list EXCEPT ![i].status = "created"]

\* line 119-128: the secrets, in the order of the dict
Secrets == <<[name |-> "SECRET_KEY", value |-> ExampleSecret],
             [name |-> "GH_TOKEN", value |-> GITHUB_TOKEN]>>

\* os.path.exists(f"{pipeline_type}.yml")
FileExists(pipeline_type) == pipeline_type \in DOMAIN TemplateFiles

\* line 64
WorkflowPath(pipeline_type) == ".github/workflows/" \o pipeline_type \o ".yml"

\* A remote call, with the position of the entry main() is processing.
Call(op, name, arg, content, branch, ok) ==
  [entry |-> idx, op |-> op, repo |-> name, arg |-> arg, content |-> content,
   branch |-> branch, ok |-> ok]

\* encrypt (line 98-105): PublicKey(...) raises on a key that does not decode
\* to a key (line 102); secret_value.encode raises AttributeError on None
\* (line 104).  "none" when it returns.
EncryptRaises(key, secret_value) ==
  IF key = "malformed" THEN "encoding_error"
  ELSE IF secret_value = NoneType THEN "attribute_error"
  ELSE "none"

\* The body of a 2xx answer to get_public_key: a JSON object with a key that
\* is one ("valid") or does not decode to one ("malformed"), a JSON object
\* without the fields ("no_key"), or no JSON at all ("not_json").
KeyBodies == {"valid", "malformed", "no_key", "not_json"}

\* response.json() (line 80) on a body that is not JSON raises
\* requests.exceptions.JSONDecodeError, a RequestException, with requests
\* 2.27 or later, and a plain ValueError before; no version is pinned.
JsonErrorIsRequestException == BOOLEAN

\* What the remote may answer to a create: a name that exists is refused.
CreateResponses(name) == IF name \in remote THEN {FALSE} ELSE {TRUE, FALSE}

\* except requests.exceptions.RequestException (line 132-133): print, and the
\* for loop goes on with the next entry.
Caught(how) ==
  /\ pc' = "loop"
  /\ idx' = idx + 1
  /\ k' = 0
  /\ outcome' = [outcome EXCEPT ![idx] = how]
  /\ public_key_info' = "none"
  /\ UNCHANGED <<repos_data, store, loaded, run>>

\* Any other exception leaves main(): the process ends, repos.json is not
\* written.
Uncaught(how) ==
  /\ pc' = "crashed"
  /\ k' = 0
  /\ outcome' = [outcome EXCEPT ![idx] = how]
  /\ public_key_info' = "none"
  /\ UNCHANGED <<repos_data, store, loaded, run, idx>>

\* After the create, the collaborators in list order, then the pipeline.
AfterUser(n) ==
  IF n < Len(repo.repo_users) THEN pc' = "collab" /\ k' = n + 1
  ELSE pc' = "pipeline" /\ k' = 0

\* The state when main() has loaded repos.json (line 108-109), the list being
\* one of lists.
Start(lists) ==
  /\ store \in lists
  /\ repos_data = JsonLoad(store)
  /\ loaded = repos_data
  /\ pc = "loop"
  /\ idx = 1
  /\ k = 0
  /\ calls = <<>>
  /\ outcome = Pending(store)
  /\ public_key_info = "none"
  /\ run = 1
  /\ stale = {}
  /\ GITHUB_TOKEN \in Tokens
  /\ public_key = <<>>
  /\ key_in = <<>>
  /\ padpc = "idle"

\* The remote may hold any of the names already.
Init ==
  /\ Start(ListsUpTo(MaxRepos))
  /\ remote \in SUBSET NamesOf(store)

\* line 111-112: an entry whose status is not "need-to-create" is passed over
Skip ==
  /\ pc = "loop"
  /\ idx <= Len(repos_data)
  /\ ~NeedsCreate(repo)
  /\ idx' = idx + 1
  /\ outcome' = [outcome EXCEPT ![idx] = "skipped"]
  /\ UNCHANGED <<repos_data, store, loaded, pc, k, calls, remote,
                 public_key_info, run, stale, padvars, GITHUB_TOKEN>>

\* create_repo (line 26-35)
CreateRepo ==
  /\ pc = "loop"
  /\ idx <= Len(repos_data)
  /\ NeedsCreate(repo)
  /\ \E ok \in CreateResponses(repo.repo_name) :
       /\ calls' = Append(calls, Call("create_repo", repo.repo_name, "private", "", "", ok))
       /\ remote' = IF ok THEN remote \cup {repo.repo_name} ELSE remote
       /\ IF RaisesForStatus(ok)
            THEN Caught("http_error") /\ UNCHANGED stale
            ELSE /\ AfterUser(0)
                 /\ UNCHANGED <<repos_data, store, loaded, idx, outcome,
                                public_key_info, run, stale>>
  /\ UNCHANGED <<padvars, GITHUB_TOKEN>>

\* add_collaborator (line 37-45), for user k of the entry
AddCollaborator ==
  /\ pc = "collab"
  /\ \E ok \in BOOLEAN :
       /\ calls' = Append(calls, Call("add_collaborator", repo.repo_name,
                                      repo.repo_users[k], "push", "", ok))
       /\ IF RaisesForStatus(ok)
            THEN Caught("http_error") /\ stale' = stale \cup {idx}
            ELSE /\ AfterUser(k)
                 /\ UNCHANGED <<repos_data, store, loaded, idx, outcome,
                                public_key_info, run, stale>>
  /\ UNCHANGED <<remote, padvars, GITHUB_TOKEN>>

\* create_pipeline (line 56-74) with read_pipeline_file (line 47-54)
CreatePipeline ==
  /\ pc = "pipeline"
  /\ IF repo.pipeline_type = NoneType \/ ~FileExists(repo.pipeline_type)
       THEN /\ Uncaught("config_error")
            /\ stale' = stale \cup {idx}
            /\ UNCHANGED calls
       ELSE \E ok \in BOOLEAN :
            /\ calls' = Append(calls,
                 Call("create_pipeline", repo.repo_name,
                      WorkflowPath(repo.pipeline_type),
                      b64encode(TemplateFiles[repo.pipeline_type]), "main", ok))
            /\ IF RaisesForStatus(ok)
                 THEN Caught("http_error") /\ stale' = stale \cup {idx}
                 ELSE /\ pc' = "pubkey"
                      /\ UNCHANGED <<repos_data, store, loaded, idx, k, outcome,
                                     public_key_info, run, stale>>
  /\ UNCHANGED <<remote, padvars, GITHUB_TOKEN>>

\* get_public_key (line 76-80), called once by set_repo_secrets (line 84),
\* and the read of the key (line 85)
GetPublicKey ==
  /\ pc = "pubkey"
  /\ \E ok \in BOOLEAN :
       /\ calls' = Append(calls, Call("get_public_key", repo.repo_name, "", "", "", ok))
       /\ IF RaisesForStatus(ok)
            THEN Caught("http_error") /\ stale' = stale \cup {idx}
            ELSE \E body \in KeyBodies :
              IF body = "not_json"
                THEN /\ \E caught \in JsonErrorIsRequestException :
                          IF caught THEN Caught("json_error") ELSE Uncaught("json_error")
                     /\ stale' = stale \cup {idx}
              ELSE IF body = "no_key"
                THEN Uncaught("key_error") /\ stale' = stale \cup {idx}
                ELSE /\ public_key_info' = body
                     /\ pc' = "secret"
                     /\ k' = 1
                     /\ UNCHANGED <<repos_data, store, loaded, idx, outcome, run, stale>>
  /\ UNCHANGED <<remote, padvars, GITHUB_TOKEN>>

\* set_repo_secrets, one turn of its loop (line 87-96): encrypt, then the PUT;
\* after the last secret, line 130.
SetSecret ==
  /\ pc = "secret"
  /\ IF EncryptRaises(public_key_info, Secrets[k].value) # "none"
       THEN /\ Uncaught(EncryptRaises(public_key_info, Secrets[k].value))
            /\ stale' = stale \cup {idx}
            /\ UNCHANGED calls
       ELSE \E ok \in BOOLEAN :
            /\ calls' = Append(calls, Call("put_secret", repo.repo_name,
                                           Secrets[k].name, "encrypted", "", ok))
            /\ IF RaisesForStatus(ok)
                 THEN Caught("http_error") /\ stale' = stale \cup {idx}
                 ELSE IF k < Len(Secrets)
                   THEN /\ k' = k + 1
                        /\ UNCHANGED <<repos_data, store, loaded, pc, idx, outcome,
                                       public_key_info, run, stale>>
                   ELSE /\ repos_data' = SetCreated(repos_data, idx)
                        /\ outcome' = [outcome EXCEPT ![idx] = "created"]
                        /\ pc' = "loop"
                        /\ idx' = idx + 1
                        /\ k' = 0
                        /\ public_key_info' = "none"
                        /\ UNCHANGED <<store, loaded, run, stale>>
  /\ UNCHANGED <<remote, padvars, GITHUB_TOKEN>>

\* line 135-136: after the loop, the whole list is written back
WriteBack ==
  /\ pc = "loop"
  /\ idx > Len(repos_data)
  /\ store' = JsonDump(repos_data)
  /\ pc' = "done"
  /\ UNCHANGED <<repos_data, loaded, idx, k, calls, outcome, remote,
                 public_key_info, run, stale, padvars, GITHUB_TOKEN>>

Next ==
  \/ Skip
  \/ CreateRepo
  \/ AddCollaborator
  \/ CreatePipeline
  \/ GetPublicKey
  \/ SetSecret
  \/ WriteBack

Spec == Init /\ [][Next]_vars

(***************************************************************************)
(* The same run over longer lists.                                         *)
(***************************************************************************)
InitBatch ==
  /\ Start(ListsUpTo(MaxBatch))
  /\ remote \in SUBSET NamesOf(store)

SpecBatch == InitBatch /\ [][Next]_vars

(***************************************************************************)
(* Successive runs: when a run has ended (repos.json written, or the       *)
(* process ended by an exception), main() is started again and loads what  *)
(* is on disk.  The remote keeps its repositories.                         *)
(***************************************************************************)
Restart ==
  /\ pc \in {"done", "crashed"}
  /\ run < MaxRuns
  /\ run' = run + 1
  /\ repos_data' = JsonLoad(store)
  /\ loaded' = JsonLoad(store)
  /\ pc' = "loop"
  /\ idx' = 1
  /\ k' = 0
  /\ calls' = <<>>
  /\ outcome' = Pending(store)
  /\ UNCHANGED <<store, remote, public_key_info, stale, padvars, GITHUB_TOKEN>>

\* The first run starts where repos.json and the remote agree: the remote holds
\* the repositories of the entries marked "created".
CreatedNames(list) == {list[i].repo_name : i \in {j \in 1..Len(list) : list[j].status = "created"}}

InitRuns ==
  /\ Start(ListsUpTo(MaxReposRuns))
  /\ remote = CreatedNames(store)

NextRuns ==
  \/ Next
  \/ Restart

SpecRuns == InitRuns /\ [][NextRuns]_vars

(***************************************************************************)
(* encrypt() (line 98-105): the padding loop, then the decoding of the     *)
(* padded string.  The key string is any string of at most MaxKeyLen       *)
(* characters.                                                             *)
(***************************************************************************)
KeyStrings == UNION {[1..n -> KeyChars] : n \in 0..MaxKeyLen}

\* A loop that pads to an even length only.
NeedsPaddingEven(s) == Len(s) % 2 # 0

\* line 100: the condition of the while loop
NeedsPadding(s) == Len(s) % 4 # 0

InitPad ==
  /\ public_key \in KeyStrings
  /\ key_in = public_key
  /\ padpc = "loop"
  /\ store = <<>>
  /\ repos_data = <<>>
  /\ loaded = <<>>
  /\ pc = "secret"
  /\ idx = 1
  /\ k = 1
  /\ calls = <<>>
  /\ outcome = <<>>
  /\ remote = {}
  /\ public_key_info = "none"
  /\ run = 1
  /\ stale = {}
  /\ GITHUB_TOKEN = "gh-token"

\* line 100-101: one turn of the loop
PadStep ==
  /\ padpc = "loop"
  /\ NeedsPadding(public_key)
  /\ public_key' = Append(public_key, "=")
  /\ UNCHANGED <<key_in, padpc, runvars>>

\* line 102: the loop is left and the string goes to the base64 decoder
Decode ==
  /\ padpc = "loop"
  /\ ~NeedsPadding(public_key)
  /\ padpc' = "decode"
  /\ UNCHANGED <<public_key, key_in, runvars>>

NextPad ==
  \/ PadStep
  \/ Decode

\* The interpreter keeps executing encrypt(): a step that can be taken is taken.
SpecPad == InitPad /\ [][NextPad]_vars /\ WF_vars(NextPad)

(***************************************************************************)
(* Properties.                                                             *)
(***************************************************************************)
Indices == 1..Len(loaded)
Terminal == pc \in {"done", "crashed"}
LocalErrors == {"config_error", "json_error", "key_error", "encoding_error", "attribute_error"}

\* The calls of this run for an entry (those issued while main() processes
\* it), in the order issued.  Each names the repository of the entry.
CallsOf(i) == SelectSeq(calls, LAMBDA c : c.entry = i)
OpsOf(i, op) == SelectSeq(calls, LAMBDA c : c.entry = i /\ c.op = op)
AllOk(i) == \A j \in 1..Len(calls) : calls[j].entry = i => calls[j].ok
Last(seq) == seq[Len(seq)]
IsNewCall == Len(calls') = Len(calls) + 1

\* A step of the entry failed: a remote call, or an exception raised locally.
HasFailure(i) ==
  \/ ~AllOk(i)
  \/ outcome[i] \in LocalErrors

\* Every step of the entry was made and succeeded.
FullyProvisioned(i) ==
  /\ AllOk(i)
  /\ \A j \in 1..Len(CallsOf(i)) : CallsOf(i)[j].repo = loaded[i].repo_name
  /\ Len(OpsOf(i, "create_repo")) = 1
  /\ \A u \in 1..Len(loaded[i].repo_users) :
       \E j \in 1..Len(calls) :
         /\ calls[j].entry = i
         /\ calls[j].op = "add_collaborator"
         /\ calls[j].arg = loaded[i].repo_users[u]
  /\ Len(OpsOf(i, "create_pipeline")) = 1
  /\ Len(OpsOf(i, "get_public_key")) = 1
  /\ \A n \in {"SECRET_KEY", "GH_TOKEN"} :
       \E j \in 1..Len(calls) :
         calls[j].entry = i /\ calls[j].op = "put_secret" /\ calls[j].arg = n

\* C1: in a run, the status of an entry changes only from "need-to-create" to
\* "created" (hence at most once, and never back), and only when create_repo,
\* add_collaborator for every user, create_pipeline, get_public_key and both
\* secret uploads have succeeded for it in this run; an entry with a failed
\* step has status "need-to-create".
C1_StatusOnlyForward ==
  [][\A i \in Indices :
       /\ repos_data'[i].status # repos_data[i].status =>
            /\ repos_data[i].status = "need-to-create"
            /\ loaded[i].status = "need-to-create"
            /\ repos_data'[i].status = "created"
            /\ FullyProvisioned(i)'
       /\ repos_data[i].status = "created" => repos_data'[i].status = "created"
       /\ HasFailure(i)' => repos_data'[i].status = "need-to-create"]_vars

C1_Witness ==
  /\ pc = "done"
  /\ \E i \in Indices : loaded[i].status = "need-to-create" /\ repos_data[i].status = "created"
  /\ \E i \in Indices : HasFailure(i) /\ repos_data[i].status = "need-to-create"

\* C2: a configuration error of an entry (no pipeline type, no template
\* file) is caught for that entry: the run goes on, the entry keeps status
\* "need-to-create" and every later entry is processed in the same run.
C2_ConfigErrorCaught ==
  \A i \in Indices :
    outcome[i] = "config_error" =>
      /\ pc # "crashed"
      /\ repos_data[i].status = "need-to-create"
      /\ Terminal => \A j \in Indices : j > i => outcome[j] # "pending"

\* C3: a failed remote call of an entry aborts that entry only: the entry
\* keeps status "need-to-create" and, when the run has ended, every later
\* entry has been processed.
C3_HttpErrorAbortsEntryOnly ==
  \A i \in Indices :
    outcome[i] = "http_error" =>
      /\ repos_data[i].status = "need-to-create"
      /\ Terminal => \A j \in Indices : j > i => outcome[j] # "pending"

\* C4: a run that loaded the list ends with repos.json rewritten with the
\* whole list, whatever errors occurred: when the run has ended, the file
\* holds the list in memory, and every entry provisioned in the run is
\* "created" in the file.
C4_StoreRewritten ==
  Terminal =>
    /\ pc = "done"
    /\ store = repos_data
    /\ \A i \in Indices : outcome[i] = "created" => store[i].status = "created"

\* C5: once a remote call for an entry has failed, no further remote call is
\* issued for that entry in the run (after a failed create there is no other
\* call for it at all), and the entry stays "need-to-create" in memory and in
\* repos.json.
C5_NoCallAfterFailure ==
  [][/\ IsNewCall => AllOk(Last(calls').entry)
     /\ \A i \in Indices :
          ~AllOk(i)' =>
            /\ ~Last(CallsOf(i))'.ok
            /\ \A j \in 1..(Len(CallsOf(i)') - 1) : CallsOf(i)'[j].ok
            /\ (~CallsOf(i)'[1].ok => Len(CallsOf(i)') = 1)
            /\ repos_data'[i].status = "need-to-create"
            /\ store'[i].status = "need-to-create"]_vars

C5_Witness ==
  /\ pc = "done"
  /\ \E i \in Indices :
       /\ Len(CallsOf(i)) = 1
       /\ ~CallsOf(i)[1].ok
       /\ store[i].status = "need-to-create"
  /\ \E i \in Indices :
       /\ Len(CallsOf(i)) > 1
       /\ ~AllOk(i)

\* The calls of a provisioned entry, the key fetch left out: one create, one
\* add_collaborator per user in list order, one upload of the template
\* (base64) to the workflow path on main, and the uploads of SECRET_KEY and
\* GH_TOKEN.
Issued(i, op, arg, content, branch) ==
  [entry |-> i, op |-> op, repo |-> loaded[i].repo_name, arg |-> arg,
   content |-> content, branch |-> branch, ok |-> TRUE]

ExpectedCalls(i) ==
  <<Issued(i, "create_repo", "private", "", "")>>
  \o [u \in 1..Len(loaded[i].repo_users) |->
        Issued(i, "add_collaborator", loaded[i].repo_users[u], "push", "")]
  \o <<Issued(i, "create_pipeline", ".github/workflows/deploy.yml", "bmFtZTogQ0k=", "main"),
       Issued(i, "put_secret", "SECRET_KEY", "encrypted", ""),
       Issued(i, "put_secret", "GH_TOKEN", "encrypted", "")>>

\* The entry has been processed, every remote call for it succeeded, the key
\* answer held a key and encrypt() did not raise (the token is set).
ProcessedWithoutFailure(i) ==
  /\ loaded[i].status = "need-to-create"
  /\ loaded[i].pipeline_type = "deploy"
  /\ outcome[i] \notin {"pending"} \cup LocalErrors
  /\ AllOk(i)

CallsInOrder(i) ==
  SelectSeq(CallsOf(i), LAMBDA c : c.op # "get_public_key") = ExpectedCalls(i)

\* C6: for a "need-to-create" entry whose template file exists, when every
\* remote call succeeds, the calls are one create, one add_collaborator per
\* user in list order, one upload of the base64 of the template to
\* .github/workflows/<pipeline-type>.yml on main, then the two secret
\* uploads; and when the run has ended the status in repos.json is "created".
C6_CallsAndPersistedStatus ==
  \A i \in Indices :
    ProcessedWithoutFailure(i) =>
      /\ CallsInOrder(i)
      /\ Terminal => store[i].status = "created"

\* C7: for an entry that is "created" when the list is loaded, the run issues
\* no remote call: every call of the run is issued for an entry loaded as
\* "need-to-create", and names the repository of that entry.
C7_CreatedEntriesUntouched ==
  /\ \A i \in Indices : loaded[i].status = "created" => CallsOf(i) = <<>>
  /\ \A j \in 1..Len(calls) :
       /\ calls[j].entry \in Indices
       /\ loaded[calls[j].entry].status = "need-to-create"
       /\ calls[j].repo = loaded[calls[j].entry].repo_name

C7_Witness ==
  /\ pc = "done"
  /\ \E i \in Indices : loaded[i].status = "created" /\ outcome[i] = "skipped"
  /\ \E i \in Indices : loaded[i].status = "need-to-create" /\ CallsOf(i) # <<>>

\* C8: repos.json always holds the entries loaded, in the same order, with
\* name, users and pipeline type unchanged; a status differs only for an entry
\* provisioned in this run, which is "created"; when every loaded entry is
\* "created" the file written equals the file read.
C8_OnlyStatusChanges ==
  /\ Len(store) = Len(loaded)
  /\ \A i \in Indices :
       /\ store[i].repo_name = loaded[i].repo_name
       /\ store[i].repo_users = loaded[i].repo_users
       /\ store[i].pipeline_type = loaded[i].pipeline_type
       /\ DOMAIN store[i] = DOMAIN loaded[i]
       /\ store[i].status # loaded[i].status =>
            /\ store[i].status = "created"
            /\ outcome[i] = "created"
            /\ FullyProvisioned(i)
  /\ (\A i \in Indices : loaded[i].status = "created") => store = loaded

C8_Witness ==
  /\ pc = "done"
  /\ Len(store) = 2
  /\ store[1].status = loaded[1].status
  /\ store[2].status # loaded[2].status

\* The least number of '=' that brings a length to a multiple of 4.
LeastPad(n) == CHOOSE p \in 0..3 : (n + p) % 4 = 0 /\ \A q \in 0..(p - 1) : (n + q) % 4 # 0
Equals(n) == [j \in 1..n |-> "="]
Added == Len(public_key) - Len(key_in)

\* C9: the string encrypt() hands to the decoder is the key string followed by
\* the least number (0 to 3) of '=' that makes its length a multiple of 4,
\* unchanged when the length is one already; the loop never adds more, and it
\* ends.
C9_PaddedToMultipleOfFour ==
  /\ [](/\ Added \in 0..LeastPad(Len(key_in))
        /\ public_key = key_in \o Equals(Added)
        /\ padpc = "decode" =>
             /\ Added = LeastPad(Len(key_in))
             /\ Len(public_key) % 4 = 0)
  /\ <>(padpc = "decode")

C9_Witness ==
  /\ padpc = "decode"
  /\ Len(key_in) % 4 = 1
  /\ public_key = key_in \o <<"=", "=", "=">>

\* C10: over successive runs, an entry whose create succeeded in a run in
\* which a later step of it failed exists at the remote and stays
\* "need-to-create" in memory and in repos.json; from then on every call
\* issued for it is a create that fails.
C10_StaleEntryNeverCreated ==
  [][\A i \in stale' :
       /\ store'[i].repo_name \in remote'
       /\ repos_data'[i].status = "need-to-create"
       /\ store'[i].status = "need-to-create"
       /\ (i \in stale /\ IsNewCall /\ Last(calls').entry = i) =>
            /\ Last(calls').op = "create_repo"
            /\ Last(calls').repo = store[i].repo_name
            /\ ~Last(calls').ok]_vars

C10_Witness ==
  /\ run = 2
  /\ pc = "done"
  /\ \E i \in stale :
       /\ Len(CallsOf(i)) = 1
       /\ CallsOf(i)[1].op = "create_repo"
       /\ ~CallsOf(i)[1].ok
       /\ store[i].status = "need-to-create"

=============================================================================
